---- MODULE Spec2Model ----
(***************************************************************************)
(* A model of the brawlstars.js client: the cached fetch layer             *)
(* (Client._fetch), the resource accessors that marshal their parameters   *)
(* into it, and the TTL cache the client owns.                             *)
(*                                                                         *)
(* Text that the code only concatenates is a TLA+ string; text that the    *)
(* code inspects character by character (the Cache-Control header value,   *)
(* the query values that are percent-escaped) is a sequence of one         *)
(* character strings.                                                      *)
(***************************************************************************)
EXTENDS Integers, Sequences, FiniteSets, TLC

VARIABLES
  now,      \* the wall clock, in seconds
  token,    \* token[cl]   : Client.token
  cacheOn,  \* cacheOn[cl] : whether Client.cache is defined (options.cache)
  cache,    \* cache[cl]   : the store of Client.cache, key -> [v, t]
  calls,    \* calls[c]    : one invocation of Client._fetch and where it stands
  prov      \* history: prov[cl][key] is the provenance of the entry under key

vars == <<now, token, cacheOn, cache, calls, prov>>

(***************************************************************************)
(* Bounds of the model.                                                    *)
(***************************************************************************)
MaxCalls == 2
MaxTime == 2
MaxTailLen == 2

Clients == {"A", "B"}
CallIds == 1..MaxCalls

(***************************************************************************)
(* JavaScript values.                                                      *)
(***************************************************************************)
Undefined == [type |-> "undefined"]
JNull == [type |-> "null"]
JBool(b) == [type |-> "boolean", b |-> b]
JNum(n) == [type |-> "number", nan |-> FALSE, n |-> n]
NaN == [type |-> "number", nan |-> TRUE, n |-> 0]
JStr(s) == [type |-> "string", s |-> s]
JArr(a) == [type |-> "array", a |-> a]
JObj(f) == [type |-> "object", f |-> f]

\* ToBoolean: what `if (x)` tests.  Objects and arrays, also empty ones, are
\* truthy; undefined, null, false, 0, NaN and the empty string are not.
Truthy(x) ==
  CASE x.type = "undefined" -> FALSE
    [] x.type = "null" -> FALSE
    [] x.type = "boolean" -> x.b
    [] x.type = "number" -> ~x.nan /\ x.n # 0
    [] x.type = "string" -> Len(x.s) # 0
    [] OTHER -> TRUE

(***************************************************************************)
(* Character sequences.                                                    *)
(***************************************************************************)
RECURSIVE Concat(_)
Concat(cs) == IF cs = <<>> THEN "" ELSE Head(cs) \o Concat(Tail(cs))

startsWith(s, p) == Len(s) >= Len(p) /\ SubSeq(s, 1, Len(p)) = p
slice(s, k) == SubSeq(s, k + 1, Len(s))

DecDigits == <<"0", "1", "2", "3", "4", "5", "6", "7", "8", "9">>
HexLower == DecDigits \o <<"a", "b", "c", "d", "e", "f">>
HexUpper == DecDigits \o <<"A", "B", "C", "D", "E", "F">>

IsDigit(ch, radix) ==
  \E i \in 1..radix : HexLower[i] = ch \/ HexUpper[i] = ch
DigitVal(ch) ==
  (CHOOSE i \in 1..16 : HexLower[i] = ch \/ HexUpper[i] = ch) - 1

WhiteSpace == {" ", "\t"}

RECURSIVE TrimStart(_)
TrimStart(s) ==
  IF s # <<>> /\ Head(s) \in WhiteSpace THEN TrimStart(Tail(s)) ELSE s

RECURSIVE DigitRun(_, _)
DigitRun(s, radix) ==
  IF s # <<>> /\ IsDigit(Head(s), radix)
  THEN <<Head(s)>> \o DigitRun(Tail(s), radix)
  ELSE <<>>

RECURSIVE DigitsValue(_, _, _)
DigitsValue(ds, radix, acc) ==
  IF ds = <<>> THEN acc
  ELSE DigitsValue(Tail(ds), radix, acc * radix + DigitVal(Head(ds)))

\* parseInt(string) with no radix: leading white space is skipped, a sign is
\* taken, "0x"/"0X" switches to radix 16, the longest run of digits is read
\* and what follows it is ignored; no digit at all gives NaN.
parseInt(s) ==
  LET t == TrimStart(s)
      neg == t # <<>> /\ Head(t) = "-"
      u == IF t # <<>> /\ Head(t) \in {"-", "+"} THEN Tail(t) ELSE t
      hex == Len(u) >= 2 /\ u[1] = "0" /\ u[2] \in {"x", "X"}
      radix == IF hex THEN 16 ELSE 10
      w == IF hex THEN slice(u, 2) ELSE u
      ds == DigitRun(w, radix)
      m == DigitsValue(ds, radix, 0)
  IN IF ds = <<>> THEN NaN ELSE JNum(IF neg THEN 0 - m ELSE m)

(***************************************************************************)
(* querystring.stringify and the request URL.                              *)
(***************************************************************************)
\* The characters querystring.escape leaves alone.
Unreserved ==
  {"a", "b", "c", "d", "e", "f", "g", "h", "i", "j", "k", "l", "m", "n",
   "o", "p", "q", "r", "s", "t", "u", "v", "w", "x", "y", "z",
   "0", "1", "2", "3", "4", "5", "6", "7", "8", "9",
   "-", "_", ".", "!", "~", "*", "'", "(", ")"}

PercentCode(ch) ==
  CASE ch = " " -> "%20"
    [] ch = "#" -> "%23"
    [] ch = "%" -> "%25"
    [] ch = "&" -> "%26"
    [] ch = "+" -> "%2B"
    [] ch = "/" -> "%2F"
    [] ch = "=" -> "%3D"
    [] ch = "?" -> "%3F"

\* querystring.escape: percent-encodes every character that is not unreserved.
escape(cs) ==
  Concat([i \in 1..Len(cs) |->
            IF cs[i] \in Unreserved THEN cs[i] ELSE PercentCode(cs[i])])

RECURSIVE NatToChars(_)
NatToChars(n) ==
  IF n < 10 THEN <<DecDigits[n + 1]>>
  ELSE NatToChars(n \div 10) \o <<DecDigits[(n % 10) + 1]>>

\* stringifyPrimitive: a string is itself, a finite number its decimal text,
\* a boolean "true"/"false", everything else (undefined, null, NaN) is "".
stringifyPrimitive(v) ==
  CASE v.type = "string" -> v.s
    [] v.type = "number" ->
         IF v.nan THEN <<>>
         ELSE IF v.n < 0 THEN <<"-">> \o NatToChars(0 - v.n)
         ELSE NatToChars(v.n)
    [] v.type = "boolean" ->
         IF v.b THEN <<"t", "r", "u", "e">> ELSE <<"f", "a", "l", "s", "e">>
    [] OTHER -> <<>>

\* querystring.stringify(obj): the pairs in the object's property order,
\* "key=value" joined by "&"; nothing is sorted.
RECURSIVE JoinPairs(_)
JoinPairs(ps) ==
  IF ps = <<>> THEN ""
  ELSE escape(Head(ps).k) \o "=" \o escape(stringifyPrimitive(Head(ps).v))
       \o (IF Tail(ps) = <<>> THEN "" ELSE "&" \o JoinPairs(Tail(ps)))

stringify(obj) == IF obj.type = "object" THEN JoinPairs(obj.f) ELSE ""

DefaultBaseURL == "https://api.brawlstars.com/v1"
baseURL(cl) == DefaultBaseURL

\* const url = this.baseURL + path + (query ? "?" + stringify(query) : "")
\* A variant that leaves the path and the query out of the key.
RequestURLBaseOnly(cl, path, query) == baseURL(cl)

RequestURL(cl, path, query) ==
  baseURL(cl) \o path \o (IF Truthy(query) THEN "?" \o stringify(query) ELSE "")

\* A variant that sends the bare token.
authorizationNoScheme(tok) == tok

\* get authorization() { return `Bearer ${this.token}`; }
authorization(tok) == "Bearer " \o tok

(***************************************************************************)
(* The response: status, body decoding, Cache-Control.                     *)
(***************************************************************************)
\* A variant of the success test that refuses only the server errors.
OkBelow500(status) == status >= 200 /\ status < 500

\* response.ok
Ok(status) == status >= 200 /\ status < 300

APIError(text, status) ==
  [kind |-> "error", name |-> "APIError", message |-> text, status |-> status]
TransportError == [kind |-> "error", name |-> "FetchError"]
DecodeError == [kind |-> "error", name |-> "SyntaxError"]
Value(v) == [kind |-> "value", v |-> v]

\* response.json(): the decoded value of a body text, or a failure.
JSONParse(body) ==
  CASE body = "0" -> [ok |-> TRUE, v |-> JNum(0)]
    [] body = "7" -> [ok |-> TRUE, v |-> JNum(7)]
    [] body = "null" -> [ok |-> TRUE, v |-> JNull]
    [] body = "false" -> [ok |-> TRUE, v |-> JBool(FALSE)]
    [] body = "\"\"" -> [ok |-> TRUE, v |-> JStr(<<>>)]
    [] body = "[]" -> [ok |-> TRUE, v |-> JArr(<<>>)]
    [] body = "[{\"id\":1}]" ->
         [ok |-> TRUE, v |-> JArr(<<JObj([id |-> JNum(1)])>>)]
    [] body = "[{\"id\":2}]" ->
         [ok |-> TRUE, v |-> JArr(<<JObj([id |-> JNum(2)])>>)]
    [] body = "{\"name\":\"x\",\"3vs3Victories\":5}" ->
         [ok |-> TRUE,
          v |-> JObj(("name" :> JStr(<<"x">>)) @@ ("3vs3Victories" :> JNum(5)))]
    [] body = "{\"name\":\"y\"}" ->
         [ok |-> TRUE, v |-> JObj("name" :> JStr(<<"y">>))]
    [] OTHER -> [ok |-> FALSE]

NoHeader == [present |-> FALSE]
Header(cs) == [present |-> TRUE, s |-> cs]
MaxAgePrefix == <<"m", "a", "x", "-", "a", "g", "e", "=">>

\* cache && cache.startsWith("max-age=") ? parseInt(cache.slice(8)) : 0
TTL(h) ==
  IF h.present /\ Len(h.s) # 0 /\ startsWith(h.s, MaxAgePrefix)
  THEN parseInt(slice(h.s, Len(MaxAgePrefix)))
  ELSE JNum(0)

\* A variant of the hit test that tells a hit by `exists !== null`.
IsHitNotNull(exists) == exists.type # "null"

\* if (exists) return exists
IsHit(exists) == Truthy(exists)

\* A variant that stores every decoded body, whatever the TTL.
ShouldSetAlways(ttl) == TRUE

\* if (ttl) this.cache?.set(url, data, ttl)
ShouldSet(ttl) == Truthy(ttl)

\* A variant that hands the cache the TTL in milliseconds.
SetTTLMillis(ttl) == ttl.n * 1000

\* The TTL handed to set: the parsed number, which the cache takes as seconds.
SetTTL(ttl) == ttl.n

(***************************************************************************)
(* The TTL cache (the node-cache store the client constructs).             *)
(***************************************************************************)
EmptyStore == [k \in {} |-> [v |-> Undefined, t |-> 0]]

\* An entry is visible only while the time is strictly before its deadline.
Live(store, key, t) == key \in DOMAIN store /\ t < store[key].t

CacheGet(store, key, t) == IF Live(store, key, t) THEN store[key].v ELSE Undefined

\* A lookup that finds the entry expired removes it.
AfterGet(store, key, t) ==
  IF key \in DOMAIN store /\ ~Live(store, key, t)
  THEN [k \in DOMAIN store \ {key} |-> store[k]]
  ELSE store

CacheSet(store, key, v, ttl, t) ==
  [k \in DOMAIN store \cup {key} |->
     IF k = key THEN [v |-> v, t |-> t + ttl] ELSE store[k]]

Sweep(store, t) == [k \in {x \in DOMAIN store : Live(store, x, t)} |-> store[k]]

\* The entries a reader can see at time t.
Visible(store, t) == Sweep(store, t)

(***************************************************************************)
(* One invocation of Client._fetch.                                        *)
(*   pc       idle -> awaitFetch -> awaitJson -> done  (or idle -> done)   *)
(*   exists, response, ttl, outcome: the locals and the result of the call *)
(*   result: what the accessor that made the call returns to its caller    *)
(*   via, params, nreq, bodyUsed, steps, seen, setTtl, at, tok: history    *)
(*   after: the calls that had returned when this one was made            *)
(***************************************************************************)
NoResponse == [kind |-> "none"]
NoOutcome == [kind |-> "none"]
NoEntry == [present |-> FALSE]
NoParams == [given |-> FALSE]

NewCall ==
  [pc |-> "idle", via |-> "", params |-> NoParams, client |-> "", path |-> "",
   query |-> Undefined, url |-> "", auth |-> "", exists |-> Undefined,
   response |-> NoResponse, ttl |-> Undefined, outcome |-> NoOutcome,
   nreq |-> 0, bodyUsed |-> FALSE, steps |-> <<>>, seen |-> NoEntry,
   setTtl |-> Undefined, at |-> 0, result |-> NoOutcome, tok |-> "",
   after |-> {}]

\* new Client(token, options) for every client: options.cache decides whether
\* the client has a cache; the default options have cache: true.
Construct(options) ==
  /\ now = 0
  /\ token = [cl \in Clients |-> "token-" \o cl]
  /\ cacheOn = [cl \in Clients |-> options[cl].cache]
  /\ cache = [cl \in Clients |-> EmptyStore]
  /\ calls = [c \in CallIds |-> NewCall]
  /\ prov = [cl \in Clients |-> [k \in {} |-> NoEntry]]

\* A variant in which every client has a cache, whatever its options.
HasCacheAlways(cl) == TRUE

\* this.cache?. : whether the client has a cache to ask.
HasCache(cl) == cacheOn[cl]

\* if (exists) return exists;
ReturnCached(call, exists) ==
  [call EXCEPT !.pc = "done", !.outcome = Value(exists),
               !.steps = @ \o <<"return">>]

\* const response = await fetch(url, {headers: {Authorization: ...}})
IssueRequest(call, tok) ==
  [call EXCEPT !.pc = "awaitFetch", !.auth = authorization(tok),
               !.nreq = @ + 1, !.steps = @ \o <<"network">>]

\* A variant in which all clients use one cache.
SharedCache(cl) == "A"

\* this.cache = options.cache ? new Cache(options.cacheOptions) : undefined
\* Every client constructs a cache of its own; caches are named after their
\* owner.
OwnCache(cl) == cl

\* _fetch up to its first await: the key, the cache lookup, and either the
\* return of the cached value or the GET.
_fetch(c, cl, via, params, path, query) ==
  /\ calls[c].pc = "idle"
  /\ \A d \in CallIds : d < c => calls[d].pc # "idle"
  /\ LET url == RequestURL(cl, path, query)
         own == OwnCache(cl)
         exists == IF HasCache(cl) THEN CacheGet(cache[own], url, now)
                   ELSE Undefined
         seen == IF HasCache(cl) /\ url \in DOMAIN cache[own]
                 THEN [present |-> TRUE, v |-> cache[own][url].v,
                       t |-> cache[own][url].t, by |-> prov[own][url].by,
                       at |-> prov[own][url].at,
                       header |-> prov[own][url].response.header]
                 ELSE NoEntry
         call == [calls[c] EXCEPT !.via = via, !.params = params,
                                  !.client = cl, !.path = path,
                                  !.query = query, !.url = url,
                                  !.exists = exists, !.seen = seen,
                                  !.at = now, !.tok = token[cl],
                                  !.after = {d \in CallIds :
                                               calls[d].pc = "done"},
                                  !.steps = <<"key", "lookup">>]
         store == IF HasCache(cl) THEN AfterGet(cache[own], url, now)
                  ELSE cache[own]
     IN /\ calls' = [calls EXCEPT ![c] = IF IsHit(exists)
                                         THEN ReturnCached(call, exists)
                                         ELSE IssueRequest(call, token[cl])]
        /\ cache' = [cache EXCEPT ![own] = store]
        /\ prov' = [prov EXCEPT ![own] = [k \in DOMAIN store |-> prov[own][k]]]
  /\ UNCHANGED <<now, token, cacheOn>>

\* A variant that issues the request again when the response is not ok.
ThrowAPIErrorRetry(call, r) ==
  [call EXCEPT !.pc = "awaitFetch", !.response = r, !.nreq = @ + 1,
               !.steps = @ \o <<"network">>]

\* if (!response.ok) throw new APIError(response.statusText, response.status)
ThrowAPIError(call, r) ==
  [call EXCEPT !.pc = "done", !.response = r,
               !.outcome = APIError(r.statusText, r.status),
               !.steps = @ \o <<"fail">>]

\* The await of fetch() ends: it rejects (transport failure), or it gives a
\* response, which is refused when not ok and whose body is read otherwise.
OnResponse(call, r) ==
  IF r.kind = "failure"
  THEN [call EXCEPT !.pc = "done", !.response = r, !.outcome = TransportError,
                    !.steps = @ \o <<"fail">>]
  ELSE IF ~Ok(r.status)
  THEN ThrowAPIError(call, r)
  ELSE [call EXCEPT !.pc = "awaitJson", !.response = r, !.bodyUsed = TRUE,
                    !.steps = @ \o <<"decode">>]

Respond(c, r) ==
  /\ calls[c].pc = "awaitFetch"
  /\ calls' = [calls EXCEPT ![c] = OnResponse(calls[c], r)]
  /\ UNCHANGED <<now, token, cacheOn, cache, prov>>

\* A variant that swallows the decode failure and returns null.
SwallowDecode(call) ==
  [call EXCEPT !.pc = "done", !.outcome = Value(JNull),
               !.steps = @ \o <<"return">>]

\* const data = await response.json(), when json() rejects: the rejection
\* leaves _fetch as it is.
FailDecode(call) ==
  [call EXCEPT !.pc = "done", !.outcome = DecodeError,
               !.steps = @ \o <<"fail">>]

\* The await of response.json() ends: it rejects, or gives the data; then the
\* Cache-Control header is read, the entry is stored when the TTL is truthy
\* and the client has a cache, and the data is returned.
JsonResolves(c) ==
  /\ calls[c].pc = "awaitJson"
  /\ LET call == calls[c]
         cl == call.client
         own == OwnCache(cl)
         parsed == JSONParse(call.response.body)
         ttl == TTL(call.response.header)
         doSet == ShouldSet(ttl) /\ HasCache(cl)
     IN IF ~parsed.ok
        THEN /\ calls' = [calls EXCEPT ![c] = FailDecode(call)]
             /\ UNCHANGED <<cache, prov>>
        ELSE /\ calls' = [calls EXCEPT ![c] =
                            [call EXCEPT !.pc = "done", !.ttl = ttl,
                                         !.outcome = Value(parsed.v),
                                         !.setTtl = IF doSet THEN ttl ELSE Undefined,
                                         !.steps = @ \o <<"ttl">>
                                                     \o (IF doSet THEN <<"set">> ELSE <<>>)
                                                     \o <<"return">>]]
             /\ cache' = IF doSet
                         THEN [cache EXCEPT ![own] =
                                 CacheSet(@, call.url, parsed.v, SetTTL(ttl), now)]
                         ELSE cache
             /\ prov' = IF doSet
                        THEN [prov EXCEPT ![own] =
                                [k \in DOMAIN @ \cup {call.url} |->
                                   IF k = call.url
                                   THEN [present |-> TRUE, by |-> cl, call |-> c,
                                         at |-> now,
                                         path |-> call.path, query |-> call.query,
                                         response |-> call.response, ttl |-> ttl]
                                   ELSE @[k]]]
                        ELSE prov
  /\ UNCHANGED <<now, token, cacheOn>>

\* A second passes.
Tick ==
  /\ now < MaxTime
  /\ now' = now + 1
  /\ UNCHANGED <<token, cacheOn, cache, calls, prov>>

\* The cache's periodic check deletes the expired entries.
CheckData(cl) ==
  /\ cacheOn[cl]
  /\ \E k \in DOMAIN cache[OwnCache(cl)] : ~Live(cache[OwnCache(cl)], k, now)
  /\ cache' = [cache EXCEPT ![OwnCache(cl)] = Sweep(@, now)]
  /\ prov' = [prov EXCEPT ![OwnCache(cl)] =
                 [k \in DOMAIN cache'[OwnCache(cl)] |-> @[k]]]
  /\ UNCHANGED <<now, token, cacheOn, calls>>

(***************************************************************************)
(* The resource accessors.                                                 *)
(***************************************************************************)
KBefore == <<"b", "e", "f", "o", "r", "e">>
KAfter == <<"a", "f", "t", "e", "r">>
KLimit == <<"l", "i", "m", "i", "t">>

Params(before, after, limit) ==
  [given |-> TRUE, before |-> before, after |-> after, limit |-> limit]

\* const query = {}; if (before) query.before = before; if (after) ...
BuildQuery(ps) ==
  JObj((IF Truthy(ps.before) THEN <<[k |-> KBefore, v |-> ps.before]>> ELSE <<>>)
       \o (IF Truthy(ps.after) THEN <<[k |-> KAfter, v |-> ps.after]>> ELSE <<>>)
       \o (IF Truthy(ps.limit) THEN <<[k |-> KLimit, v |-> ps.limit]>> ELSE <<>>))

getBrawler(c, cl, id) ==
  _fetch(c, cl, "getBrawler", NoParams, "/brawlers/" \o id, Undefined)

getMapRotation(c, cl) ==
  _fetch(c, cl, "getMapRotation", NoParams, "/events/rotation", Undefined)

getBrawlers(c, cl, ps) ==
  _fetch(c, cl, "getBrawlers", ps, "/brawlers", BuildQuery(ps))

getPlayerRankings(c, cl, country, ps) ==
  _fetch(c, cl, "getPlayerRankings", ps,
        "/rankings/" \o country \o "/players", BuildQuery(ps))

\* cleanTag(tag), of ./utils: the tag without its leading "#".
cleanTag(tag) ==
  Concat(IF tag # <<>> /\ Head(tag) = "#" THEN Tail(tag) ELSE tag)

getPlayer(c, cl, tag) ==
  _fetch(c, cl, "getPlayer", NoParams, "/players/%23" \o cleanTag(tag), Undefined)

TypeError == [kind |-> "error", name |-> "TypeError"]

\* A variant that moves the field instead of copying it.
AdaptPlayerMove(res) ==
  JObj([k \in (DOMAIN res.f \ {"3vs3Victories"}) \cup {"x3vs3Victories"} |->
          IF k = "x3vs3Victories"
          THEN IF "3vs3Victories" \in DOMAIN res.f THEN res.f["3vs3Victories"]
               ELSE Undefined
          ELSE res.f[k]])

\* res.x3vs3Victories = (res as any)["3vs3Victories"]; return res;
AdaptPlayer(res) ==
  JObj([k \in DOMAIN res.f \cup {"x3vs3Victories"} |->
          IF k = "x3vs3Victories"
          THEN IF "3vs3Victories" \in DOMAIN res.f THEN res.f["3vs3Victories"]
               ELSE Undefined
          ELSE res.f[k]])

\* getPlayer after its await of _fetch: a rejection leaves getPlayer as it
\* is; a decoded object gets the field and is returned; on null, and on a
\* primitive in strict mode, the assignment throws.  (An array, which would
\* take the property, is not a body of the player resource.)
getPlayerReturns(c) ==
  /\ calls[c].pc = "done"
  /\ calls[c].via = "getPlayer"
  /\ calls[c].result = NoOutcome
  /\ calls' = [calls EXCEPT ![c].result =
                 IF calls[c].outcome.kind = "error" THEN calls[c].outcome
                 ELSE IF calls[c].outcome.v.type = "object"
                 THEN Value(AdaptPlayer(calls[c].outcome.v))
                 ELSE TypeError]
  /\ UNCHANGED <<now, token, cacheOn, cache, prov>>

\* _fetch called with a query object of the caller's making.
fetchResource(c, cl, path, query) ==
  _fetch(c, cl, "_fetch", NoParams, path, query)

(***************************************************************************)
(* What the remote service may answer.                                     *)
(***************************************************************************)
Failure == [kind |-> "failure"]
Response(status, text, header, body) ==
  [kind |-> "response", status |-> status, statusText |-> text,
   header |-> header, body |-> body]

MaxAge(tail) == Header(MaxAgePrefix \o tail)
NoCacheHeader == Header(<<"n", "o", "-", "c", "a", "c", "h", "e">>)

NotFound == Response(404, "Not Found", NoHeader, "{\"reason\":\"notFound\"}")
Unavailable == Response(503, "Service Unavailable", NoHeader, "")

OkResponses(headers, bodies) ==
  {Response(200, "OK", h, b) : h \in headers, b \in bodies}

DefaultOptions == [cl \in Clients |-> [cache |-> TRUE]]

(***************************************************************************)
(* Spec: one client with the default options and two resources; the        *)
(* service refuses, or answers with a max-age of one or two seconds and a  *)
(* body that decodes to a falsy or to a truthy value.                      *)
(***************************************************************************)
Init == Construct(DefaultOptions)

Responses ==
  {NotFound}
    \cup OkResponses({MaxAge(<<"1">>), MaxAge(<<"2">>)}, {"0", "[{\"id\":1}]"})

Next ==
  \/ \E c \in CallIds : getMapRotation(c, "A")
  \/ \E c \in CallIds : getBrawler(c, "A", "16000000")
  \/ \E c \in CallIds, r \in Responses : Respond(c, r)
  \/ \E c \in CallIds : JsonResolves(c)
  \/ Tick
  \/ CheckData("A")

Spec == Init /\ [][Next]_vars

(***************************************************************************)
(* SpecClients: two clients with the default options fetch one resource.   *)
(***************************************************************************)
ClientsResponses ==
  OkResponses({MaxAge(<<"1">>), MaxAge(<<"2">>)}, {"[{\"id\":1}]", "[{\"id\":2}]"})

NextClients ==
  \/ \E c \in CallIds, cl \in Clients : getMapRotation(c, cl)
  \/ \E c \in CallIds, r \in ClientsResponses : Respond(c, r)
  \/ \E c \in CallIds : JsonResolves(c)
  \/ Tick
  \/ \E cl \in Clients : CheckData(cl)

SpecClients == Init /\ [][NextClients]_vars

(***************************************************************************)
(* SpecErrors: one client, with or without a cache; the transport fails,   *)
(* the service refuses, or the body of a 2xx response may not be JSON.     *)
(***************************************************************************)
InitErrors ==
  \E on \in BOOLEAN :
    Construct([cl \in Clients |-> [cache |-> IF cl = "A" THEN on ELSE TRUE]])

ErrorsResponses ==
  {Failure, NotFound, Unavailable}
    \cup OkResponses({NoHeader, MaxAge(<<"1">>)}, {"[{\"id\":1}]", "<html>"})

NextErrors ==
  \/ \E c \in CallIds : getMapRotation(c, "A")
  \/ \E c \in CallIds, r \in ErrorsResponses : Respond(c, r)
  \/ \E c \in CallIds : JsonResolves(c)
  \/ Tick
  \/ CheckData("A")

SpecErrors == InitErrors /\ [][NextErrors]_vars

(***************************************************************************)
(* SpecTTL: one client, one resource; the service answers 200 with every   *)
(* Cache-Control value of a bounded set: absent, empty, another directive, *)
(* and "max-age=" followed by every text of at most MaxTailLen characters. *)
(***************************************************************************)
TailAlphabet == {"0", "1", "2", "-", "x", " "}

RECURSIVE Texts(_)
Texts(n) ==
  IF n = 0 THEN {<<>>}
  ELSE Texts(n - 1)
         \cup {t \o <<ch>> : t \in {u \in Texts(n - 1) : Len(u) = n - 1},
                            ch \in TailAlphabet}

TTLHeaders ==
  {NoHeader, Header(<<>>), NoCacheHeader} \cup {MaxAge(t) : t \in Texts(MaxTailLen)}

NextTTL ==
  \/ \E c \in CallIds : getMapRotation(c, "A")
  \/ \E c \in CallIds, r \in OkResponses(TTLHeaders, {"[{\"id\":1}]"}) :
       Respond(c, r)
  \/ \E c \in CallIds : JsonResolves(c)
  \/ Tick
  \/ CheckData("A")

SpecTTL == Init /\ [][NextTTL]_vars

(***************************************************************************)
(* SpecKeys: one client; the paginated accessors with every combination of *)
(* absent, falsy and truthy parameters, and _fetch with query objects      *)
(* whose properties were inserted in either order.                         *)
(***************************************************************************)
Abc == JStr(<<"a", "b", "c">>)
Cursor == JStr(<<"x", "=", "1">>)

ParamSets ==
  {Params(b, a, l) : b \in {Undefined, JStr(<<>>), Abc},
                     a \in {Undefined, Cursor},
                     l \in {Undefined, JNum(0), JNum(10)}}

Queries ==
  {Undefined,
   JObj(<<>>),
   JObj(<<[k |-> KLimit, v |-> JNum(10)], [k |-> KBefore, v |-> Abc]>>),
   JObj(<<[k |-> KBefore, v |-> Abc], [k |-> KLimit, v |-> JNum(10)]>>)}

KeysResponses == OkResponses({MaxAge(<<"2">>)}, {"[{\"id\":1}]"})

NextKeys ==
  \/ \E c \in CallIds, ps \in ParamSets : getBrawlers(c, "A", ps)
  \/ \E c \in CallIds, ps \in ParamSets : getPlayerRankings(c, "A", "us", ps)
  \/ \E c \in CallIds, q \in Queries :
       fetchResource(c, "A", "/rankings/us/players", q)
  \/ \E c \in CallIds, r \in KeysResponses : Respond(c, r)
  \/ \E c \in CallIds : JsonResolves(c)
  \/ Tick

SpecKeys == Init /\ [][NextKeys]_vars

(***************************************************************************)
(* The claims.                                                             *)
(***************************************************************************)
Started(c) == calls[c].pc # "idle"

\* C1: on a client with a cache, a call that finds under its key the entry
\* of an earlier successful fetch, stored less than max-age seconds ago,
\* issues no network request and returns the stored value, whatever that
\* value is.
C1_CacheHitAvoidsNetwork ==
  \A c \in CallIds :
    (/\ Started(c) /\ cacheOn[calls[c].client]
     /\ calls[c].seen.present
     /\ calls[c].at < calls[c].seen.at
          + DigitsValue(slice(calls[c].seen.header.s, Len(MaxAgePrefix)), 10, 0))
    => /\ calls[c].pc = "done"
       /\ calls[c].nreq = 0
       /\ calls[c].outcome = Value(calls[c].seen.v)

\* C2: a call that finds under its key an entry stored max-age seconds ago
\* or earlier (the TTL has elapsed) does not return it: it issues a network
\* request, and the value it returns is the one decoded from its own
\* response.
C2_ExpiryCausesRefetch ==
  \A c \in CallIds :
    (/\ Started(c)
     /\ calls[c].seen.present
     /\ calls[c].at >= calls[c].seen.at
          + DigitsValue(slice(calls[c].seen.header.s, Len(MaxAgePrefix)), 10, 0))
    => /\ calls[c].nreq = 1
       /\ calls[c].steps[3] = "network"
       /\ calls[c].outcome.kind = "value"
            => calls[c].outcome.v = JSONParse(calls[c].response.body).v

C2_Witness ==
  \E c \in CallIds :
    /\ calls[c].pc = "done"
    /\ calls[c].seen.present
    /\ calls[c].seen.header = MaxAge(<<"2">>)
    /\ calls[c].at = calls[c].seen.at + 2
    /\ calls[c].outcome.kind = "value"
    /\ calls[c].outcome.v # calls[c].seen.v

\* C3: the TTL computed from a successful response is the unsigned integer
\* after "max-age=" when the Cache-Control value is that prefix followed by
\* decimal digits, and 0 for every other value.  (NaN, which the code
\* computes where no number can be read, is taken as the 0 it is tested as.)
C3_TTLParsing ==
  \A c \in CallIds :
    (calls[c].pc = "done" /\ calls[c].response.kind = "response"
       /\ calls[c].outcome.kind = "value")
    => LET h == calls[c].response.header
           rest == slice(h.s, Len(MaxAgePrefix))
           unsigned == /\ h.present
                       /\ startsWith(h.s, MaxAgePrefix)
                       /\ rest # <<>>
                       /\ \A i \in DOMAIN rest : IsDigit(rest[i], 10)
           claimed == IF unsigned THEN DigitsValue(rest, 10, 0) ELSE 0
           computed == IF calls[c].ttl.nan THEN 0 ELSE calls[c].ttl.n
       IN computed = claimed

\* C4: two calls on one client with the same path and the same set of query
\* parameters, inserted in any order, compute the same request key.
C4_KeyCanonicalization ==
  \A c \in CallIds, d \in CallIds :
    (/\ Started(c) /\ Started(d)
     /\ calls[c].client = calls[d].client
     /\ calls[c].path = calls[d].path
     /\ calls[c].query.type = "object" /\ calls[d].query.type = "object"
     /\ {calls[c].query.f[i] : i \in DOMAIN calls[c].query.f}
          = {calls[d].query.f[i] : i \in DOMAIN calls[d].query.f})
    => calls[c].url = calls[d].url

\* C5: when the response status is not a success status, the call fails with
\* an APIError carrying the status code and the status text, the body is not
\* read, and the cache is left as it was.
C5_HttpErrorMapping ==
  [][\A c \in CallIds :
       (/\ calls[c].pc = "awaitFetch"
        /\ calls'[c].response.kind = "response"
        /\ calls'[c].response.status \notin 200..299)
       => /\ calls'[c].pc = "done"
          /\ calls'[c].outcome =
               [kind |-> "error", name |-> "APIError",
                message |-> calls'[c].response.statusText,
                status |-> calls'[c].response.status]
          /\ ~calls'[c].bodyUsed
          /\ cache' = cache]_vars

C5_Witness ==
  \E c \in CallIds :
    /\ calls[c].pc = "done"
    /\ calls[c].response.kind = "response" /\ calls[c].response.status = 404
    /\ calls[c].outcome.kind = "error" /\ calls[c].outcome.status = 404
    /\ calls[c].outcome.message = "Not Found"

\* C6: the fetch layer calls the cache's set only with a TTL that is a
\* positive integer, whatever the Cache-Control value.
C6_SetOnlyPositiveTTL ==
  \A c \in CallIds :
    calls[c].setTtl # Undefined
    => ~calls[c].setTtl.nan /\ calls[c].setTtl.n > 0

\* C7: a transport failure and an undecodable 2xx body end the call with
\* that error, never with a value, and no step of a call that does not
\* return a value changes the entries of any cache.
C7_FailuresLeaveCache ==
  [][\A c \in CallIds :
       /\ (calls[c].pc = "awaitFetch" /\ calls'[c].response.kind = "failure")
          => /\ calls'[c].pc = "done"
             /\ calls'[c].outcome = [kind |-> "error", name |-> "FetchError"]
       /\ (/\ calls[c].pc = "awaitJson" /\ calls'[c].pc # "awaitJson"
           /\ ~JSONParse(calls[c].response.body).ok)
          => /\ calls'[c].pc = "done"
             /\ calls'[c].outcome.kind = "error"
       /\ (calls'[c] # calls[c] /\ calls'[c].outcome.kind # "value")
          => \A cl \in Clients :
               Visible(cache'[cl], now') = Visible(cache[cl], now)]_vars

C7_Witness ==
  \E c \in CallIds, d \in CallIds :
    /\ calls[c].pc = "done" /\ calls[c].outcome.kind = "value"
    /\ calls[c].setTtl # Undefined
    /\ calls[d].pc = "done" /\ calls[d].bodyUsed
    /\ calls[d].outcome = DecodeError
    /\ calls[d].url \in DOMAIN cache[calls[d].client]

\* C8: a call issues at most one GET, none when it returns a cached value and
\* exactly one otherwise, a failure is followed by no further request, and
\* the steps of a call are taken in the order key, lookup, network, decode,
\* TTL, set, return.
C8_NoRetries ==
  \A c \in CallIds :
    LET st == calls[c].steps
        runs == {<<"key", "lookup", "return">>,
                 <<"key", "lookup", "network", "fail">>,
                 <<"key", "lookup", "network", "decode", "fail">>,
                 <<"key", "lookup", "network", "decode", "ttl", "return">>,
                 <<"key", "lookup", "network", "decode", "ttl", "set", "return">>}
    IN /\ \E r \in runs : Len(st) <= Len(r) /\ SubSeq(r, 1, Len(st)) = st
       /\ calls[c].nreq = Cardinality({i \in DOMAIN st : st[i] = "network"})
       /\ calls[c].nreq <= 1
       /\ calls[c].pc = "done"
            => /\ st \in runs
               /\ calls[c].nreq = IF Truthy(calls[c].exists) THEN 0 ELSE 1

C8_Witness ==
  \E c \in CallIds, d \in CallIds :
    /\ calls[c].pc = "done" /\ calls[c].outcome.kind = "error"
    /\ calls[c].nreq = 1 /\ calls[c].steps[Len(calls[c].steps)] = "fail"
    /\ calls[d].pc = "done" /\ calls[d].outcome.kind = "value"
    /\ calls[d].nreq = 1

\* C9: for an accessor taking {before, after, limit}, every parameter the
\* caller supplies is in the request query with the supplied value, also 0
\* and the empty string, and every parameter left undefined is not in it.
C9_PaginationPassThrough ==
  \A c \in CallIds :
    (Started(c) /\ calls[c].params.given)
    => LET ps == calls[c].params
           q == calls[c].query.f
           pairs == {q[i] : i \in DOMAIN q}
           keys == {q[i].k : i \in DOMAIN q}
           through(k, v) == IF v = Undefined THEN k \notin keys
                            ELSE [k |-> k, v |-> v] \in pairs
       IN /\ through(KBefore, ps.before)
          /\ through(KAfter, ps.after)
          /\ through(KLimit, ps.limit)

\* C10: a step of a call on one client changes the cache of no other client,
\* and the entry a call finds under its key was stored by a call on the same
\* client.
C10_CacheIsolation ==
  /\ [](\A c \in CallIds :
          (Started(c) /\ calls[c].seen.present)
          => calls[c].seen.by = calls[c].client)
  /\ [][\A c \in CallIds :
          calls'[c] # calls[c]
          => \A cl \in Clients \ {calls'[c].client} : cache'[cl] = cache[cl]]_vars

C10_Witness ==
  \E k \in DOMAIN cache["A"] \cap DOMAIN cache["B"] :
    /\ cache["A"][k].v # cache["B"][k].v
    /\ \E c \in CallIds : calls[c].pc = "done" /\ calls[c].client = "B"
                          /\ calls[c].url = k /\ calls[c].nreq = 1

(***************************************************************************)
(* SpecPlayer: one client fetches a player; the transport fails, the       *)
(* service refuses, or it answers with a player with or without the        *)
(* "3vs3Victories" field, or with null.                                    *)
(***************************************************************************)
PlayerTag == <<"#", "2", "Q", "0", "V", "V", "C", "J", "2">>

PlayerResponses ==
  {Failure, NotFound}
    \cup OkResponses({MaxAge(<<"1">>)},
                     {"{\"name\":\"x\",\"3vs3Victories\":5}",
                      "{\"name\":\"y\"}", "null"})

NextPlayer ==
  \/ \E c \in CallIds : getPlayer(c, "A", PlayerTag)
  \/ \E c \in CallIds, r \in PlayerResponses : Respond(c, r)
  \/ \E c \in CallIds : JsonResolves(c)
  \/ \E c \in CallIds : getPlayerReturns(c)
  \/ Tick
  \/ CheckData("A")

SpecPlayer == Init /\ [][NextPlayer]_vars

\* C11: when the fetch gives a decoded object, getPlayer returns an object
\* whose x3vs3Victories is the "3vs3Victories" of the decoded body and whose
\* other fields are those of the decoded body; when the fetch fails,
\* getPlayer fails with the same error and issues no further request.
C11_PlayerAdaptation ==
  \A c \in CallIds :
    (calls[c].via = "getPlayer" /\ calls[c].result # NoOutcome)
    => LET out == calls[c].outcome
           res == calls[c].result
       IN /\ out.kind = "error" => res = out /\ calls[c].nreq = 1
          /\ (out.kind = "value" /\ calls[c].nreq = 1)
             => out.v = JSONParse(calls[c].response.body).v
          /\ (out.kind = "value" /\ out.v.type = "object")
             => /\ res.kind = "value" /\ res.v.type = "object"
                /\ DOMAIN res.v.f = DOMAIN out.v.f \cup {"x3vs3Victories"}
                /\ res.v.f["x3vs3Victories"] =
                     IF "3vs3Victories" \in DOMAIN out.v.f
                     THEN out.v.f["3vs3Victories"] ELSE Undefined
                /\ \A k \in DOMAIN out.v.f \ {"x3vs3Victories"} :
                     res.v.f[k] = out.v.f[k]

C11_Witness ==
  \E c \in CallIds, d \in CallIds :
    /\ calls[c].result.kind = "value" /\ calls[c].seen.present
    /\ calls[c].nreq = 0
    /\ calls[c].result.v.f["x3vs3Victories"] = JNum(5)
    /\ calls[c].result.v.f["3vs3Victories"] = JNum(5)
    /\ calls[d].result.kind = "value" /\ calls[d].nreq = 1

\* C12: a call whose query is absent or has no parameters requests exactly
\* base URL + path, so a call with an empty query object and a call with no
\* query for the same path use the same key.
C12_EmptyQueryKey ==
  \A c \in CallIds :
    (/\ Started(c)
     /\ \/ calls[c].query = Undefined
        \/ calls[c].query.type = "object" /\ calls[c].query.f = <<>>)
    => calls[c].url = DefaultBaseURL \o calls[c].path

\* C13: the entry under a key is the one written by the set that executed
\* last: a step in which a successful fetch for key K with max-age=T, T > 0,
\* completes leaves under K the value decoded from that call's response with
\* the deadline now + T, whatever was under K before (a live entry, or a
\* stale one not yet removed), and every other step leaves an entry under K
\* as it was or removes it.
C13_LastSetWins ==
  [][\A cl \in Clients :
       LET SetsKey(c, k) ==
             /\ calls[c].pc = "awaitJson" /\ calls'[c].pc = "done"
             /\ calls[c].client = cl /\ cacheOn[cl]
             /\ calls[c].url = k
             /\ calls'[c].outcome.kind = "value"
           MaxAgeOf(c) ==
             DigitsValue(slice(calls[c].response.header.s, Len(MaxAgePrefix)),
                         10, 0)
       IN /\ \A c \in CallIds :
               (SetsKey(c, calls[c].url) /\ MaxAgeOf(c) > 0)
               => /\ calls[c].url \in DOMAIN cache'[cl]
                  /\ cache'[cl][calls[c].url]
                       = [v |-> JSONParse(calls[c].response.body).v,
                          t |-> now + MaxAgeOf(c)]
          /\ \A k \in DOMAIN cache'[cl] :
               (\A c \in CallIds : ~SetsKey(c, k))
               => k \in DOMAIN cache[cl] /\ cache'[cl][k] = cache[cl][k]]_vars

C13_Witness ==
  \E c \in CallIds, d \in CallIds :
    /\ calls[c].pc = "done" /\ calls[d].pc = "done"
    /\ calls[c].setTtl # Undefined /\ calls[d].setTtl # Undefined
    /\ calls[c].url = calls[d].url
    /\ calls[c].outcome.v # calls[d].outcome.v
    /\ calls[d].seen.present /\ calls[d].seen.t <= calls[d].at
    /\ calls[d].seen.v = calls[c].outcome.v
    /\ calls[d].url \in DOMAIN cache["A"]
    /\ cache["A"][calls[d].url]
         = [v |-> calls[d].outcome.v, t |-> calls[d].seen.t + 1]

\* C14: every step of a call for key K1 (its lookup, the arrival of its
\* response, its decoding and set), under any interleaving with other calls
\* of the client, leaves the entry (value and deadline) of every other key
\* K2 as it was, and a call that returns a value returns the one decoded from
\* its own response or the one cached under its own key.
C14_NoInterferenceAcrossKeys ==
  [][\A c \in CallIds :
       calls'[c] # calls[c]
       => LET cl == calls'[c].client
              K1 == DefaultBaseURL \o calls'[c].path
          IN /\ \A K2 \in (DOMAIN cache[cl] \cup DOMAIN cache'[cl]) \ {K1} :
                  /\ K2 \in DOMAIN cache[cl] /\ K2 \in DOMAIN cache'[cl]
                  /\ cache'[cl][K2] = cache[cl][K2]
             /\ calls'[c].outcome.kind = "value"
                => IF calls'[c].nreq = 0
                   THEN /\ K1 \in DOMAIN cache[cl]
                        /\ calls'[c].outcome.v = cache[cl][K1].v
                   ELSE calls'[c].outcome.v
                          = JSONParse(calls'[c].response.body).v]_vars

C14_Witness ==
  \E c \in CallIds, d \in CallIds :
    /\ calls[c].pc = "done" /\ calls[d].pc = "done"
    /\ calls[c].url # calls[d].url
    /\ calls[c].setTtl # Undefined /\ calls[d].setTtl # Undefined
    /\ calls[c].outcome.v # calls[d].outcome.v
    /\ calls[c].url \in DOMAIN cache["A"] /\ calls[d].url \in DOMAIN cache["A"]
    /\ prov["A"][calls[c].url].at > calls[d].at
    /\ prov["A"][calls[d].url].at > calls[c].at
    /\ cache["A"][calls[c].url].v = calls[c].outcome.v
    /\ cache["A"][calls[d].url].v = calls[d].outcome.v

\* C15: on a client constructed with cache = false nothing is ever stored,
\* every call issues exactly one network request, whatever earlier calls got
\* and whatever the Cache-Control header says, and a call whose response is
\* a success with a decodable body returns the decoded body.
C15_CachingDisabled ==
  \A c \in CallIds :
    (Started(c) /\ ~cacheOn[calls[c].client])
    => /\ cache[calls[c].client] = EmptyStore
       /\ calls[c].nreq = 1
       /\ calls[c].setTtl = Undefined
       /\ (/\ calls[c].pc = "done"
           /\ calls[c].response.kind = "response"
           /\ calls[c].response.status \in 200..299
           /\ JSONParse(calls[c].response.body).ok)
          => calls[c].outcome = Value(JSONParse(calls[c].response.body).v)

C15_Witness ==
  \E c \in CallIds, d \in CallIds :
    /\ Started(c) /\ Started(d)
    /\ ~cacheOn[calls[c].client]
    /\ calls[c].client = calls[d].client /\ calls[c].url = calls[d].url
    /\ calls[c].pc = "done" /\ calls[c].outcome.kind = "value"
    /\ calls[c].response.header = MaxAge(<<"1">>)
    /\ c \in calls[d].after /\ calls[d].at = calls[c].at
    /\ calls[d].pc = "done" /\ calls[d].outcome.kind = "value"
    /\ calls[d].nreq = 1

(***************************************************************************)
(* SpecProvenance: one client, two resources; the transport fails, the     *)
(* service refuses with a cacheable-looking response, or it answers 200    *)
(* with or without max-age and with a body that decodes or does not.       *)
(***************************************************************************)
RefusedCacheable ==
  Response(404, "Not Found", MaxAge(<<"2">>), "[{\"id\":1}]")

ProvenanceResponses ==
  {Failure, RefusedCacheable, Response(200, "OK", NoCacheHeader, "[{\"id\":2}]")}
    \cup OkResponses({MaxAge(<<"1">>)}, {"[{\"id\":1}]", "<html>"})
    \cup OkResponses({MaxAge(<<"-", "1">>)}, {"[{\"id\":2}]"})

NextProvenance ==
  \/ \E c \in CallIds : getMapRotation(c, "A")
  \/ \E c \in CallIds : getBrawler(c, "A", "16000000")
  \/ \E c \in CallIds, r \in ProvenanceResponses : Respond(c, r)
  \/ \E c \in CallIds : JsonResolves(c)
  \/ Tick
  \/ CheckData("A")

SpecProvenance == Init /\ [][NextProvenance]_vars

\* C16: in every reachable state each entry of a client's cache under key K
\* holds the value decoded from the body of a response with a status in
\* 200..299 that a call of that client got for its GET of URL K, whose
\* Cache-Control value starts with "max-age=", and its deadline is the time
\* of the set plus the integer written after that prefix.
C16_CacheProvenance ==
  \A cl \in Clients :
    \A K \in DOMAIN cache[cl] :
      LET p == prov[cl][K]
          r == p.response
          tail == slice(r.header.s, Len(MaxAgePrefix))
          maxAge == IF tail # <<>> /\ Head(tail) = "-"
                    THEN 0 - DigitsValue(Tail(tail), 10, 0)
                    ELSE DigitsValue(tail, 10, 0)
      IN /\ calls[p.call].client = cl
         /\ calls[p.call].nreq = 1
         /\ calls[p.call].response = r
         /\ K = DefaultBaseURL \o calls[p.call].path
         /\ r.kind = "response"
         /\ r.status \in 200..299
         /\ JSONParse(r.body).ok
         /\ cache[cl][K].v = JSONParse(r.body).v
         /\ r.header.present
         /\ startsWith(r.header.s, MaxAgePrefix)
         /\ cache[cl][K].t = p.at + maxAge

C16_Witness ==
  \E c \in CallIds, d \in CallIds :
    /\ calls[c].pc = "done" /\ calls[d].pc = "done"
    /\ calls[c].url = calls[d].url
    /\ calls[d].response = RefusedCacheable
    /\ calls[c].url \in DOMAIN cache["A"]
    /\ prov["A"][calls[c].url].call = c
    /\ cache["A"][calls[c].url].v = calls[c].outcome.v

(***************************************************************************)
(* SpecToken: the owner of the client assigns its public token field       *)
(* between and during calls.                                               *)
(***************************************************************************)
\* client.token = tok
SetToken(cl, tok) ==
  /\ tok # token[cl]
  /\ token' = [token EXCEPT ![cl] = tok]
  /\ UNCHANGED <<now, cacheOn, cache, calls, prov>>

Tokens == {"token-A", "rotated"}

TokenResponses ==
  {NotFound} \cup OkResponses({MaxAge(<<"2">>)}, {"[{\"id\":1}]", "[{\"id\":2}]"})

NextToken ==
  \/ \E c \in CallIds : getMapRotation(c, "A")
  \/ \E c \in CallIds, r \in TokenResponses : Respond(c, r)
  \/ \E c \in CallIds : JsonResolves(c)
  \/ \E tok \in Tokens : SetToken("A", tok)
  \/ Tick
  \/ CheckData("A")

SpecToken == Init /\ [][NextToken]_vars

\* C17: the step that issues a call's request sends "Bearer " followed by
\* the client's token of that moment; the key of a call is base URL + path
\* whatever the token is; and a call that finds under its key an entry not
\* yet expired issues no request and returns the entry's value, whatever the
\* token was when the entry was stored and whatever it is now.
C17_TokenRotation ==
  [][\A c \in CallIds :
       /\ calls'[c].nreq # calls[c].nreq
          => /\ calls'[c].nreq = calls[c].nreq + 1
             /\ calls'[c].auth = "Bearer " \o token[calls'[c].client]
             /\ token' = token
       /\ (calls[c].pc = "idle" /\ calls'[c].pc # "idle")
          => /\ calls'[c].url = DefaultBaseURL \o calls'[c].path
             /\ (calls'[c].seen.present /\ now < calls'[c].seen.t)
                => /\ calls'[c].nreq = 0
                   /\ calls'[c].pc = "done"
                   /\ calls'[c].outcome = Value(calls'[c].seen.v)]_vars

C17_Witness ==
  \E c \in CallIds, d \in CallIds :
    /\ calls[d].pc = "done" /\ calls[d].setTtl # Undefined
    /\ calls[d].auth = "Bearer token-A"
    /\ d \in calls[c].after
    /\ calls[c].url = calls[d].url
    /\ calls[c].tok = "rotated"
    /\ calls[c].seen.present
    /\ calls[c].nreq = 0 /\ calls[c].auth = ""
    /\ calls[c].outcome = calls[d].outcome

====
